---- MODULE Spec2Model ----
(***************************************************************************)
(* The toppling engine of sandpile.py: class Sandpile (pattern parsing,    *)
(* the sparse grid, the stabilization loop of topple(), the dense export   *)
(* at the end of topple(), double(), resead() and replace_pattern()).      *)
(*                                                                         *)
(* A pattern string is a sequence of one-character strings.  The grid is   *)
(* the defaultdict self.grid: a function from the stored cells to their    *)
(* value, together with grid_keys, the insertion order of its keys (the    *)
(* order in which Python enumerates a dict).  topple() is one call whose   *)
(* while loop is stepped pass by pass: pc = "loop" while the call is       *)
(* running, and no other operation can start until it has returned or      *)
(* raised.                                                                 *)
(***************************************************************************)
EXTENDS Integers, Sequences, FiniteSets, TLC

\* ---------------------------------------------------------------- bounds
MaxPower  == 3    \* seed powers 0..MaxPower
MaxTotal  == 8    \* double()/resead() are not called beyond this much sand
MaxPasses == 3    \* the pass counter saturates here
MaxOrder  == 4    \* enumeration orders are varied for up to this many keys

\* ---------------------------------------------------------------- inputs
PlusPattern   == <<".", "1", ".", " ", "1", ".", "1", " ", ".", "1", ".">>
LinePattern   == <<".", ".", ".", " ", "1", ".", "1", " ", ".", ".", ".">>
TailPattern   == <<"1", "1">>
CentrePattern == <<"1">>
EmptyPattern  == <<".">>

PatternInputs == {PlusPattern, LinePattern, TailPattern, CentrePattern, EmptyPattern}

\* square patterns given to the parser alone: the 1 x 1 patterns over ParseCells,
\* 2 x 2 patterns with any ParseCells in the first row, and three 3 x 3 patterns
ParseCells == {".", "1", "2"}

HeavyPattern == <<"9", ".", ".", " ", ".", "3", ".", " ", ".", ".", "1">>

SquarePatterns ==
    {<<a>> : a \in ParseCells}
        \cup {<<a, b, " ", c, d>> : a \in ParseCells, b \in ParseCells,
                                    c \in {".", "1"}, d \in {".", "2"}}
        \cup {PlusPattern, LinePattern, HeavyPattern}

\* ---------------------------------------------------------------- helpers
Origin == <<0, 0>>

InitialMaxDim == 1

Whitespace == {" "}

DigitValue == ("0" :> 0) @@ ("1" :> 1) @@ ("2" :> 2) @@ ("3" :> 3) @@ ("4" :> 4)
              @@ ("5" :> 5) @@ ("6" :> 6) @@ ("7" :> 7) @@ ("8" :> 8) @@ ("9" :> 9)

int(cell) == DigitValue[cell]

Pow2(n) == 2 ^ n

Abs(x) == IF x < 0 THEN -x ELSE x

Max2(a, b) == IF a > b THEN a ELSE b

\* the element of a one-element set
Pick(S) == CHOOSE x \in S : TRUE

\* defaultdict(int): reading an absent key yields 0
Get(g, c) == IF c \in DOMAIN g THEN g[c] ELSE 0

Put(g, c, v) == [x \in (DOMAIN g) \cup {c} |-> IF x = c THEN v ELSE g[x]]

\* insertion order: a new key goes to the end, an existing key keeps its place
Touch(keys, g, c) == IF c \in DOMAIN g THEN keys ELSE Append(keys, c)

RECURSIVE SumOver(_, _)
SumOver(g, S) ==
    IF S = {} THEN 0
    ELSE LET c == CHOOSE x \in S : TRUE IN g[c] + SumOver(g, S \ {c})

Total(g) == SumOver(g, DOMAIN g)

\* ---------------------------------------------------------------- parse
RECURSIVE SplitFrom(_, _, _, _)
SplitFrom(s, i, cur, rows) ==
    IF i > Len(s)
    THEN IF cur = <<>> THEN rows ELSE Append(rows, cur)
    ELSE IF s[i] \in Whitespace
         THEN SplitFrom(s, i + 1, <<>>, IF cur = <<>> THEN rows ELSE Append(rows, cur))
         ELSE SplitFrom(s, i + 1, Append(cur, s[i]), rows)

split(s) == SplitFrom(s, 1, <<>>, <<>>)

Repeat(x, n) == [k \in 1..n |-> x]

RECURSIVE ParseRowSwapped(_, _, _, _, _)
ParseRowSwapped(row, rix, cix, offset, acc) ==
    IF cix >= Len(row) THEN acc
    ELSE LET cell == row[cix + 1] IN
         ParseRowSwapped(row, rix, cix + 1, offset,
                         IF cell # "."
                         THEN acc \o Repeat(<<offset - rix, offset - cix>>, int(cell))
                         ELSE acc)

\* rix and cix are the 0-based indices of enumerate()
RECURSIVE ParseRow(_, _, _, _, _)
ParseRow(row, rix, cix, offset, acc) ==
    IF cix >= Len(row) THEN acc
    ELSE LET cell == row[cix + 1] IN
         ParseRow(row, rix, cix + 1, offset,
                  IF cell # "."
                  THEN acc \o Repeat(<<offset - cix, offset - rix>>, int(cell))
                  ELSE acc)

RECURSIVE ParseRows(_, _, _, _)
ParseRows(rows, rix, offset, acc) ==
    IF rix >= Len(rows) THEN acc
    ELSE ParseRows(rows, rix + 1, offset, ParseRow(rows[rix + 1], rix, 0, offset, acc))

parse(pattern) ==
    LET rows   == split(pattern)
        offset == Len(rows) \div 2
    IN  ParseRows(rows, 0, offset, <<>>)

\* how often offset o occurs in an offset list
Count(cells, o) == Cardinality({i \in 1..Len(cells) : cells[i] = o})

\* the offset multiset is closed under negating the first and under negating the
\* second component
Mirrored(cells) ==
    \A i \in 1..Len(cells) :
        /\ Count(cells, <<-cells[i][1], cells[i][2]>>) = Count(cells, cells[i])
        /\ Count(cells, <<cells[i][1], -cells[i][2]>>) = Count(cells, cells[i])

\* ---------------------------------------------------------------- state
VARIABLES
    sand,          \* self.sand
    sand_power,    \* self.sand_power
    topple_cells,  \* self.topple_cells: sequence of offsets <<dx, dy>>
    max_per_cell,  \* self.max_per_cell
    max_dim,       \* self.max_dim
    grid,          \* self.grid: stored cell -> value
    grid_keys,     \* insertion order of the keys of self.grid
    array,         \* self.array: sequence of rows (index i of the code is i + 1 here)
    cell_max,      \* local cell_max of the running topple()
    pc,            \* "ready" | "loop" | "returned" | "raised"
    exc,           \* the exception the last call raised, or "none"
    op,            \* the public operation that is running or ran last
    pre,           \* the state in which that operation was called
    passes,        \* passes of the while loop executed by the running call (saturating)
    parity,        \* that number of passes modulo 2 (not saturating)
    reach,         \* largest |coordinate| of any redistribution target so far
    touched,       \* redistribution targets of the running call
    pattern,       \* the pattern string parsed last (by __init__ or replace_pattern)
    lineage,       \* "created" | "toppled" (one topple() since __init__, nothing else) | "used"
    mirrored       \* every pattern parsed so far had a mirror-symmetric offset list

vars == <<sand, sand_power, topple_cells, max_per_cell, max_dim, grid, grid_keys,
          array, cell_max, pc, exc, op, pre, passes, parity, reach, touched,
          pattern, lineage, mirrored>>

Callable == {"ready", "returned", "raised"}

Snapshot ==
    [grid |-> grid, max_dim |-> max_dim, array |-> array,
     max_per_cell |-> max_per_cell, topple_cells |-> topple_cells,
     sand |-> sand, pc |-> pc, lineage |-> lineage]

\* ---------------------------------------------------------------- topple: one pass
InitialCellMaxZero(s) == 0

InitialCellMax(s) == s + 1

ResetKept(m) == m

ResetCellMax(m) == 0

OverflowingOneShort(s, m) == s >= m - 1

Overflowing(s, m) == s >= m

Quantum(s, m) == s \div m

RemainderDropped(s, m) == 0

RemainderShort(s, m) == (s % m) - m

Remainder(s, m) == s % m

TrackDimFlipped(d, x) == IF x < d THEN x ELSE d

TrackDimStuck(d, x) == d

TrackDim(d, x) == IF x > d THEN x ELSE d

\* the body of `for (dx, dy) in self.topple_cells` for one offset;
\* st = [max_dim, new_sand, new_keys]
SpillOne(st, cell, per_cell, off) ==
    LET loc == <<cell[1] + off[1], cell[2] + off[2]>>
        d1  == TrackDim(st.max_dim, loc[1])
        d2  == TrackDim(d1, loc[2])
    IN  [max_dim  |-> d2,
         new_sand |-> Put(st.new_sand, loc, Get(st.new_sand, loc) + per_cell),
         new_keys |-> Touch(st.new_keys, st.new_sand, loc)]

\* `for (dx, dy) in self.topple_cells`, for the offsets from index i on
RECURSIVE Spill(_, _, _, _, _)
Spill(st, cell, per_cell, cells, i) ==
    IF i > Len(cells) THEN st
    ELSE Pick({Spill(SpillOne(s, cell, per_cell, cells[i]), cell, per_cell, cells, i + 1) :
                   s \in {st}})

\* the body of `for (row, col), sand in self.grid.items()` for one stored cell;
\* st = [grid, max_dim, new_sand, new_keys]
ScanCell(st, cell, m, cells) ==
    LET s == st.grid[cell] IN
    IF Overflowing(s, m)
    THEN LET per_cell == Quantum(s, m)
             sp == Spill([max_dim |-> st.max_dim, new_sand |-> st.new_sand,
                          new_keys |-> st.new_keys],
                         cell, per_cell, cells, 1)
         IN  [grid     |-> Put(st.grid, cell, Remainder(s, m)),
              max_dim  |-> sp.max_dim,
              new_sand |-> sp.new_sand,
              new_keys |-> sp.new_keys]
    ELSE st

\* `for (row, col), sand in self.grid.items()`, for the keys from index k on
RECURSIVE Scan(_, _, _, _, _)
Scan(st, keys, k, m, cells) ==
    IF k > Len(keys) THEN st
    ELSE Pick({Scan(ScanCell(s, keys[k], m, cells), keys, k + 1, m, cells) : s \in {st}})

MergeOneLastWins(st, cell, amount) ==
    LET total == Get(st.grid, cell) + amount
    IN  [grid      |-> Put(st.grid, cell, total),
         grid_keys |-> Touch(st.grid_keys, st.grid, cell),
         cell_max  |-> total]

\* the body of `for cell, sand in new_sand.items()` for one cell;
\* st = [grid, grid_keys, cell_max]
MergeOne(st, cell, amount) ==
    LET total == Get(st.grid, cell) + amount
    IN  [grid      |-> Put(st.grid, cell, total),
         grid_keys |-> Touch(st.grid_keys, st.grid, cell),
         cell_max  |-> IF total > st.cell_max THEN total ELSE st.cell_max]

\* `for cell, sand in new_sand.items()`, for the keys from index k on
RECURSIVE Merge(_, _, _, _)
Merge(st, new_sand, new_keys, k) ==
    IF k > Len(new_keys) THEN st
    ELSE Pick({Merge(MergeOne(s, new_keys[k], new_sand[new_keys[k]]),
                     new_sand, new_keys, k + 1) : s \in {st}})

\* one iteration of `while cell_max >= self.max_per_cell`
PassResult(g, keys, d, m, cells, cm) ==
    Pick({ Pick({ [grid |-> mg.grid, grid_keys |-> mg.grid_keys,
                   max_dim |-> sc.max_dim, cell_max |-> mg.cell_max] :
                  mg \in {Merge([grid |-> sc.grid, grid_keys |-> keys,
                                 cell_max |-> ResetCellMax(cm)],
                                sc.new_sand, sc.new_keys, 1)} }) :
           sc \in {Scan([grid |-> g, max_dim |-> d, new_sand |-> <<>>, new_keys |-> <<>>],
                        keys, 1, m, cells)} })

\* the cells that receive sand in a pass over g
Targets(g, m, cells) ==
    {<<c[1] + cells[i][1], c[2] + cells[i][2]>> :
        c \in {x \in DOMAIN g : Overflowing(g[x], m)}, i \in 1..Len(cells)}

\* the largest |row| or |col| among the cells of S, 0 for no cell
MaxAbs(S) ==
    LET A == {Abs(c[1]) : c \in S} \cup {Abs(c[2]) : c \in S} \cup {0}
    IN  CHOOSE a \in A : \A b \in A : b <= a

\* ---------------------------------------------------------------- topple: dense export
ZeroMatrix(n) == [i \in 1..n |-> [j \in 1..n |-> 0]]

\* Python list indexing: -n <= i < 0 counts from the end, anything else outside
\* 0..n-1 is an IndexError (here -1)
PyIndex(i, n) ==
    IF 0 <= i /\ i < n THEN i
    ELSE IF -n <= i /\ i < 0 THEN n + i
    ELSE -1

\* `array[row+self.max_dim][col+self.max_dim] = sand` for one stored cell;
\* st = [array, ok], ok = FALSE once an index was out of range
FillOne(st, cell, v, d, n) ==
    LET r == PyIndex(cell[1] + d, n)
        c == PyIndex(cell[2] + d, n)
    IN  IF ~st.ok \/ r < 0 \/ c < 0
        THEN [array |-> st.array, ok |-> FALSE]
        ELSE [array |-> [st.array EXCEPT ![r + 1][c + 1] = v], ok |-> TRUE]

\* `for (row, col), sand in self.grid.items()` of the export, for the keys from index k on
RECURSIVE Fill(_, _, _, _, _, _)
Fill(st, g, keys, d, n, k) ==
    IF k > Len(keys) THEN st
    ELSE Pick({Fill(FillOne(s, keys[k], g[keys[k]], d, n), g, keys, d, n, k + 1) :
                   s \in {st}})

Flatten(g, keys, d) ==
    LET grid_size == d * 2 + 1
    IN  Fill([array |-> ZeroMatrix(grid_size), ok |-> TRUE], g, keys, d, grid_size, 1)

\* ---------------------------------------------------------------- double, resead
DoubleValueSquared(v) == v * v

DoubleValue(v) == v * 2

DoubleGrid(g) == [c \in DOMAIN g |-> DoubleValue(g[c])]

ReseadOriginAdded(g, s) == Put(g, Origin, Get(g, Origin) + s)

ReseadOrigin(g, s) == Put(g, Origin, s)

\* ---------------------------------------------------------------- operations
\* Sandpile(sand_power, pattern)
Create(p, pat) ==
        /\ sand = Pow2(p)
        /\ sand_power = p
        /\ topple_cells = parse(pat)
        /\ max_per_cell = Len(parse(pat))
        /\ max_dim = InitialMaxDim
        /\ grid = Put(<<>>, Origin, Pow2(p))
        /\ grid_keys = <<Origin>>
        /\ array = <<>>
        /\ cell_max = 0
        /\ pc = "ready"
        /\ exc = "none"
        /\ op = "create"
        /\ pre = [grid |-> <<>>, max_dim |-> InitialMaxDim, array |-> <<>>,
                  max_per_cell |-> 0, topple_cells |-> <<>>, sand |-> Pow2(p),
                  pc |-> "ready", lineage |-> "created"]
        /\ passes = 0
        /\ parity = 0
        /\ reach = 0
        /\ touched = {}
        /\ pattern = pat
        /\ lineage = "created"
        /\ mirrored = Mirrored(parse(pat))

Init == \E p \in 0..MaxPower, pat \in PatternInputs : Create(p, pat)

\* entry of topple(): cell_max = self.sand + 1
Enter(name, g) ==
    /\ grid' = g
    /\ cell_max' = InitialCellMax(sand)
    /\ pc' = "loop"
    /\ exc' = "none"
    /\ op' = name
    /\ pre' = Snapshot
    /\ passes' = 0
    /\ parity' = 0
    /\ touched' = {}
    /\ lineage' = IF name = "topple" /\ lineage = "created" THEN "toppled" ELSE "used"
    /\ UNCHANGED <<sand, sand_power, topple_cells, max_per_cell, max_dim, grid_keys,
                   array, reach, pattern, mirrored>>

Topple ==
    /\ pc \in Callable
    /\ Enter("topple", grid)

Double ==
    /\ pc \in Callable
    /\ Total(DoubleGrid(grid)) <= MaxTotal
    /\ Enter("double", DoubleGrid(grid))

Resead ==
    /\ pc \in Callable
    /\ Total(ReseadOrigin(grid, sand)) <= MaxTotal
    /\ Enter("resead", ReseadOrigin(grid, sand))

\* bookkeeping of a replace_pattern(pat) call
ReplaceNoted(pat) ==
    /\ pc' = "ready"
    /\ exc' = "none"
    /\ op' = "replace_pattern"
    /\ pre' = Snapshot
    /\ pattern' = pat
    /\ lineage' = "used"
    /\ mirrored' = (mirrored /\ Mirrored(parse(pat)))
    /\ UNCHANGED <<sand, sand_power, cell_max, passes, parity, reach, touched>>

ReplacePatternReseeds(pat) ==
    /\ pc \in Callable
    /\ topple_cells' = parse(pat)
    /\ max_per_cell' = Len(parse(pat))
    /\ grid' = ReseadOrigin(grid, sand)
    /\ ReplaceNoted(pat)
    /\ UNCHANGED <<max_dim, grid_keys, array>>

ReplacePattern(pat) ==
    /\ pc \in Callable
    /\ topple_cells' = parse(pat)
    /\ max_per_cell' = Len(parse(pat))
    /\ ReplaceNoted(pat)
    /\ UNCHANGED <<max_dim, grid, grid_keys, array>>

\* one pass of the while loop, threshold > 0
Pass ==
    /\ pc = "loop"
    /\ cell_max >= max_per_cell
    /\ max_per_cell # 0
    /\ \E r \in {PassResult(grid, grid_keys, max_dim, max_per_cell, topple_cells, cell_max)} :
           /\ grid' = r.grid
           /\ grid_keys' = r.grid_keys
           /\ max_dim' = r.max_dim
           /\ cell_max' = r.cell_max
    /\ \E t \in {Targets(grid, max_per_cell, topple_cells)} :
           /\ reach' = Max2(reach, MaxAbs(t))
           /\ touched' = touched \cup t
    /\ passes' = IF passes < MaxPasses THEN passes + 1 ELSE passes
    /\ parity' = 1 - parity
    /\ UNCHANGED <<sand, sand_power, topple_cells, max_per_cell, array, pc, exc, op, pre,
                   pattern, lineage, mirrored>>

\* the pass with threshold 0: the first stored cell has sand >= 0, and
\* sand // self.max_per_cell raises ZeroDivisionError before anything is written
PassZeroDivision ==
    /\ pc = "loop"
    /\ cell_max >= max_per_cell
    /\ max_per_cell = 0
    /\ Len(grid_keys) > 0
    /\ pc' = "raised"
    /\ exc' = "ZeroDivisionError"
    /\ UNCHANGED <<sand, sand_power, topple_cells, max_per_cell, max_dim, grid, grid_keys,
                   array, cell_max, op, pre, passes, parity, reach, touched,
                   pattern, lineage, mirrored>>

\* the loop exits and the grid is flattened into self.array
Return ==
    /\ pc = "loop"
    /\ cell_max < max_per_cell
    /\ \E f \in {Flatten(grid, grid_keys, max_dim)} :
           /\ f.ok
           /\ array' = f.array
    /\ pc' = "returned"
    /\ UNCHANGED <<sand, sand_power, topple_cells, max_per_cell, max_dim, grid, grid_keys,
                   cell_max, exc, op, pre, passes, parity, reach, touched,
                   pattern, lineage, mirrored>>

\* the loop exits and the flattening indexes outside the matrix
ReturnIndexError ==
    /\ pc = "loop"
    /\ cell_max < max_per_cell
    /\ ~Flatten(grid, grid_keys, max_dim).ok
    /\ pc' = "raised"
    /\ exc' = "IndexError"
    /\ UNCHANGED <<sand, sand_power, topple_cells, max_per_cell, max_dim, grid, grid_keys,
                   array, cell_max, op, pre, passes, parity, reach, touched,
                   pattern, lineage, mirrored>>

Next ==
    \/ Topple
    \/ Double
    \/ Resead
    \/ \E pat \in PatternInputs : ReplacePattern(pat)
    \/ Pass
    \/ PassZeroDivision
    \/ Return
    \/ ReturnIndexError

Spec == Init /\ [][Next]_vars

\* the parser alone: objects are constructed and their pattern replaced
ParseInit == \E p \in 0..MaxPower, pat \in SquarePatterns : Create(p, pat)

ParseNext == \E pat \in SquarePatterns : ReplacePattern(pat)

ParseSpec == ParseInit /\ [][ParseNext]_vars

\* a running call keeps running: the interpreter executes the next pass or the exit
FairSpec ==
    /\ Spec
    /\ WF_vars(Pass)
    /\ WF_vars(PassZeroDivision)
    /\ WF_vars(Return)
    /\ WF_vars(ReturnIndexError)

TypeOK ==
    /\ pc \in {"ready", "loop", "returned", "raised"}
    /\ exc \in {"none", "ZeroDivisionError", "IndexError"}
    /\ DOMAIN grid = {grid_keys[i] : i \in 1..Len(grid_keys)}
    /\ Cardinality(DOMAIN grid) = Len(grid_keys)


\* ---------------------------------------------------------------- claim vocabulary
StableGrid(g, m) == \A c \in DOMAIN g : g[c] < m

\* every offset occurs as often as its negation, and some offset is not (0, 0)
Balanced(cells) ==
    /\ \A i \in 1..Len(cells) :
           Count(cells, cells[i]) = Count(cells, <<-cells[i][1], -cells[i][2]>>)
    /\ \E i \in 1..Len(cells) : cells[i] # Origin

\* the matrix is (2R+1) x (2R+1), holds every stored cell at (row+R, col+R), 0 elsewhere
Faithful(a, g, R) ==
    LET n == 2 * R + 1 IN
    /\ Len(a) = n
    /\ \A i \in 1..n : Len(a[i]) = n
    /\ \A c \in DOMAIN g :
           /\ 0 <= c[1] + R /\ c[1] + R <= 2 * R
           /\ 0 <= c[2] + R /\ c[2] + R <= 2 * R
           /\ a[c[1] + R + 1][c[2] + R + 1] = g[c]
    /\ \A i \in 1..n, j \in 1..n :
           <<i - 1 - R, j - 1 - R>> \notin DOMAIN g => a[i][j] = 0

\* ---------------------------------------------------------------- claims

\* C1: whenever topple() returns, every stored cell holds a value strictly below
\* the current threshold max_per_cell.
C1_StableOnReturn == pc = "returned" => StableGrid(grid, max_per_cell)

\* C2: with a non-empty offset list, no step of a running topple() (a pass, or the
\* exit with its export) changes the sum of all grid values.
C2_Conservation ==
    [][(pc = "loop" /\ max_per_cell > 0) => Total(grid') = Total(grid)]_vars

\* a pass has moved sand to other cells
C2_Witness ==
    /\ pc = "loop"
    /\ max_per_cell > 0
    /\ passes >= 1
    /\ touched # {}
    /\ \E c \in DOMAIN grid : c # Origin /\ grid[c] > 0

\* C3 (as claimed): with any non-empty offset list, a running stabilization loop
\* eventually exits.
C3_Terminates == (pc = "loop" /\ max_per_cell > 0) ~> (pc # "loop")

\* C3 (amended): with an offset list in which every offset occurs as often as its
\* negation and some offset is non-zero, a running stabilization loop eventually exits.
C3_BalancedTerminates == (pc = "loop" /\ Balanced(topple_cells)) ~> (pc # "loop")

\* a loop over a balanced pattern has run several passes and exited
C3_Witness ==
    /\ pc = "returned"
    /\ Balanced(topple_cells)
    /\ passes >= 2
    /\ touched # {}

\* C4: when topple() returns with bounding radius R = max_dim, the matrix is
\* (2R+1) x (2R+1), holds every stored cell's value at (row+R, col+R), both indices
\* within 0..2R, and is 0 everywhere else.
C4_DenseExportFaithful == pc = "returned" => Faithful(array, grid, max_dim)

\* C5 (as claimed): after resead() the total sand is the total before it plus the seed.
C5_ReseedAdds ==
    (pc = "returned" /\ op = "resead") => Total(grid) = Total(pre.grid) + sand

\* C5 (amended): resead() sets the origin to the seed, so after it the total sand is the
\* total before it, minus the value the origin held, plus the seed.
C5_ReseedOverwrites ==
    (pc = "returned" /\ op = "resead")
        => Total(grid) = Total(pre.grid) - Get(pre.grid, Origin) + sand

\* resead() on a state whose origin held sand has run a pass and returned
C5_Witness ==
    /\ pc = "returned"
    /\ op = "resead"
    /\ Get(pre.grid, Origin) > 0
    /\ passes >= 1
    /\ touched # {}

\* C6: no state with threshold 0 is in the stabilization loop, and the division by
\* the threshold never faults.
C6_DegenerateRejected ==
    /\ ~(pc = "loop" /\ max_per_cell = 0)
    /\ exc # "ZeroDivisionError"

\* C7: topple() called on the unmodified stable state that a previous topple() returned
\* leaves grid, bounding radius and threshold unchanged and returns the same matrix.
C7_StabilizeIdempotent ==
    (/\ pc = "returned"
     /\ op = "topple"
     /\ pre.pc = "returned"
     /\ StableGrid(pre.grid, pre.max_per_cell))
        => /\ grid = pre.grid
           /\ max_dim = pre.max_dim
           /\ max_per_cell = pre.max_per_cell
           /\ array = pre.array

\* a second topple() on a stable, spread-out state has run a pass and returned
C7_Witness ==
    /\ pc = "returned"
    /\ op = "topple"
    /\ pre.pc = "returned"
    /\ StableGrid(pre.grid, pre.max_per_cell)
    /\ passes >= 1
    /\ Cardinality(DOMAIN grid) > 1

\* C8: the bounding radius equals the largest absolute coordinate of any redistribution
\* target so far (0 before any redistribution), and a topple() that returns before any
\* redistribution exports a 1x1 matrix.
C8_RadiusIsMaxAbsTarget ==
    /\ max_dim = reach
    /\ (pc = "returned" /\ reach = 0) => Len(array) = 1

\* C9: no step of any operation decreases max_dim.
C9_RadiusMonotone == [][max_dim' >= max_dim]_vars

\* redistribution has pushed the radius beyond its initial value
C9_Witness == max_dim > InitialMaxDim /\ touched # {}

\* C10: when double() returns, the total sand is twice the total before it, and every
\* cell stored now was stored before or was a redistribution target of this call.
C10_DoubleTotal ==
    (pc = "returned" /\ op = "double")
        => /\ Total(grid) = 2 * Total(pre.grid)
           /\ DOMAIN grid \subseteq (DOMAIN pre.grid) \cup touched

\* double() has toppled into cells that were not stored before and returned
C10_Witness ==
    /\ pc = "returned"
    /\ op = "double"
    /\ passes >= 1
    /\ Total(pre.grid) > 0
    /\ DOMAIN grid # DOMAIN pre.grid


\* C11: replace_pattern(p) sets the offset list to parse(p) and the threshold to its
\* length, and leaves the grid, the bounding radius, the seed and the last exported
\* matrix as they were; no pass runs (the call ends outside the loop).
C11_ReplacePatternFrame ==
    op = "replace_pattern"
        => /\ pc = "ready"
           /\ topple_cells = parse(pattern)
           /\ max_per_cell = Len(topple_cells)
           /\ grid = pre.grid
           /\ max_dim = pre.max_dim
           /\ sand = pre.sand
           /\ array = pre.array

\* the pattern of a spread-out grid was replaced by one under which it is unstable
C11_Witness ==
    /\ op = "replace_pattern"
    /\ topple_cells # pre.topple_cells
    /\ Cardinality(DOMAIN grid) > 1
    /\ array # <<>>
    /\ ~StableGrid(grid, max_per_cell)

\* the number of rows n of a square pattern string: n rows of n characters, n - 1 blanks
Side(p) == CHOOSE n \in 1..Len(p) : n * n + n - 1 = Len(p)

\* the character at (row, col), 0-based, of a square pattern string of n rows
CharAt(p, n, row, col) == p[row * (n + 1) + col + 1]

\* how often the claim says offset o is listed: the digit at column c - o[1], row c - o[2]
ExpectedCount(p, o) ==
    LET n   == Side(p)
        c   == n \div 2
        col == c - o[1]
        row == c - o[2]
    IN  IF row \in 0..(n - 1) /\ col \in 0..(n - 1) /\ CharAt(p, n, row, col) # "."
        THEN DigitValue[CharAt(p, n, row, col)]
        ELSE 0

RECURSIVE DigitSumFrom(_, _)
DigitSumFrom(p, i) ==
    IF i > Len(p) THEN 0
    ELSE (IF p[i] \in DOMAIN DigitValue THEN DigitValue[p[i]] ELSE 0) + DigitSumFrom(p, i + 1)

DigitSum(p) == DigitSumFrom(p, 1)

\* C12: for the square pattern parsed last, with n rows and centre c = n \div 2, the
\* offset list holds (c - column, c - row) exactly d times for each digit d at
\* (row, column) and nothing else, the threshold is the sum of the digits, and the plus
\* pattern gives (-1,0), (1,0), (0,1), (0,-1) once each with threshold 4.
C12_ParserCorrect ==
    LET n == Side(pattern) IN
    /\ \A a \in (-n)..n, b \in (-n)..n :
           Count(topple_cells, <<a, b>>) = ExpectedCount(pattern, <<a, b>>)
    /\ \A i \in 1..Len(topple_cells) :
           topple_cells[i][1] \in (-n)..n /\ topple_cells[i][2] \in (-n)..n
    /\ max_per_cell = DigitSum(pattern)
    /\ pattern = PlusPattern
           => /\ max_per_cell = 4
              /\ \A o \in {<<-1, 0>>, <<1, 0>>, <<0, 1>>, <<0, -1>>} :
                     Count(topple_cells, o) = 1

\* a 2 x 2 pattern with a repeated offset and an offset off the diagonal was parsed
C12_Witness ==
    /\ op = "replace_pattern"
    /\ Side(pattern) = 2
    /\ Count(topple_cells, <<0, 1>>) = 2
    /\ Count(topple_cells, <<1, 0>>) = 0
    /\ max_per_cell >= 3


\* topple() called directly on Sandpile(2, '.1. 1.1 .1.')
PlusScenario ==
    /\ op = "topple"
    /\ pre.lineage = "created"
    /\ sand_power = 2
    /\ pattern = PlusPattern

PlusGrid ==
    (<<0, 0>> :> 0) @@ (<<0, 1>> :> 1) @@ (<<1, 0>> :> 1) @@ (<<-1, 0>> :> 1)
        @@ (<<0, -1>> :> 1)

PlusMatrix == <<<<0, 1, 0>>, <<1, 0, 1>>, <<0, 1, 0>>>>

\* C13: create(seed_power = 2, plus pattern) followed by topple() runs exactly one pass,
\* in which the origin topples to 0 and each of the four edge neighbours receives 1;
\* the radius is 1 and the returned matrix is 3 x 3 with centre 0, edges 1, corners 0.
C13_EndToEnd ==
    PlusScenario
        => /\ pc # "raised"
           /\ (pc = "loop" /\ passes = 0) => cell_max >= max_per_cell
           /\ passes >= 1
                  => /\ passes = 1
                     /\ cell_max < max_per_cell
                     /\ grid = PlusGrid
                     /\ touched = (DOMAIN PlusGrid) \ {Origin}
                     /\ max_dim = 1
           /\ pc = "returned" => (passes = 1 /\ array = PlusMatrix)

\* the scenario's topple() has returned
C13_Witness == PlusScenario /\ pc = "returned" /\ passes = 1

\* resead() was called on the result of create + topple, a stable state, and returned
ReseadOfFresh ==
    /\ pc = "returned"
    /\ op = "resead"
    /\ pre.lineage = "toppled"
    /\ pre.pc = "returned"
    /\ StableGrid(pre.grid, pre.max_per_cell)

\* C14 (as claimed): resead() on the stable result of create + topple gives the grid and
\* dense export that create + topple gave.
C14_ReseedIdempotent == ReseadOfFresh => (grid = pre.grid /\ array = pre.array)

\* C14 (amended): resead() on the stable result of create + topple in which the whole
\* seed is still on the origin (no cell toppled) gives the grid and dense export that
\* create + topple gave.
C14_ReseedIdempotentAtOrigin ==
    (ReseadOfFresh /\ Get(pre.grid, Origin) = sand)
        => (grid = pre.grid /\ array = pre.array)

\* such a resead() has run a pass and returned
C14_Witness ==
    /\ ReseadOfFresh
    /\ Get(pre.grid, Origin) = sand
    /\ passes >= 1

\* C15: every invocation of the stabilization loop starts with cell_max >= threshold,
\* so a topple() that returns has executed at least one pass.
C15_AtLeastOnePass ==
    /\ (pc = "loop" /\ passes = 0) => cell_max >= max_per_cell
    /\ pc = "returned" => passes >= 1


\* a pass is about to run
PassDue == pc = "loop" /\ cell_max >= max_per_cell /\ max_per_cell > 0

\* every order of the elements of the set S, as sequences
RECURSIVE Orders(_)
Orders(S) ==
    IF S = {} THEN {<<>>}
    ELSE UNION {{<<x>> \o o : o \in Orders(S \ {x})} : x \in S}

Elements(seq) == {seq[i] : i \in 1..Len(seq)}

\* sand delivered to cell c by a pass, computed from the values g at its start:
\* for the offsets from index i on
RECURSIVE DeliveredFrom(_, _, _, _, _)
DeliveredFrom(g, m, cells, c, i) ==
    IF i > Len(cells) THEN 0
    ELSE LET src == <<c[1] - cells[i][1], c[2] - cells[i][2]>>
         IN  (IF src \in DOMAIN g /\ g[src] >= m THEN g[src] \div m ELSE 0)
                 + DeliveredFrom(g, m, cells, c, i + 1)

\* the cells a pass delivers to, from the values at its start
SyncTargets(g, m, cells) ==
    {<<c[1] + cells[i][1], c[2] + cells[i][2]>> :
        c \in {x \in DOMAIN g : g[x] >= m}, i \in 1..Len(cells)}

\* the grid after a pass in which every cell topples by its value at the start
SyncGrid(g, m, cells) ==
    [c \in (DOMAIN g) \cup SyncTargets(g, m, cells) |->
        (IF c \in DOMAIN g THEN (IF g[c] >= m THEN g[c] % m ELSE g[c]) ELSE 0)
            + DeliveredFrom(g, m, cells, c, 1)]

\* the largest value among the cells delivered to, 0 for none
SyncMax(g, m, cells) ==
    LET A == {SyncGrid(g, m, cells)[c] : c \in SyncTargets(g, m, cells)} \cup {0}
    IN  CHOOSE a \in A : \A b \in A : b <= a

\* the scan of a pass with the stored cells enumerated in the order keys
ScanIn(keys) ==
    Scan([grid |-> grid, max_dim |-> max_dim, new_sand |-> <<>>, new_keys |-> <<>>],
         keys, 1, max_per_cell, topple_cells)

\* the merge of the delta map of scan sc in the order keys
MergeIn(sc, keys) ==
    Merge([grid |-> sc.grid, grid_keys |-> grid_keys, cell_max |-> ResetCellMax(cell_max)],
          sc.new_sand, keys, 1)

\* C16: the grid, the bounding radius and cell_max at the end of a pass are those of
\* the synchronous wave (every quantum taken from the value at the start of the pass),
\* for every order in which the stored cells are enumerated and every order in which
\* the delta map is merged.
C16_OrderIndependent ==
    PassDue =>
        \A sc \in {ScanIn(grid_keys)} :
            /\ \A r \in {PassResult(grid, grid_keys, max_dim, max_per_cell,
                                    topple_cells, cell_max)} :
                   /\ r.grid = SyncGrid(grid, max_per_cell, topple_cells)
                   /\ r.cell_max = SyncMax(grid, max_per_cell, topple_cells)
                   /\ r.grid = MergeIn(sc, sc.new_keys).grid
            /\ Len(grid_keys) <= MaxOrder
                   => \A keys \in Orders(Elements(grid_keys)) :
                          \A other \in {ScanIn(keys)} :
                              /\ other.grid = sc.grid
                              /\ other.max_dim = sc.max_dim
                              /\ other.new_sand = sc.new_sand
            /\ Len(sc.new_keys) <= MaxOrder
                   => \A keys \in Orders(Elements(sc.new_keys)) :
                          \A other \in {MergeIn(sc, keys)} :
                              /\ other.grid = MergeIn(sc, sc.new_keys).grid
                              /\ other.cell_max = MergeIn(sc, sc.new_keys).cell_max

\* a pass is due in which several cells topple and several cells receive sand, few
\* enough for every order to be tried, after an earlier pass has run
C16_Witness ==
    /\ PassDue
    /\ passes >= 1
    /\ Len(grid_keys) <= MaxOrder
    /\ Cardinality({c \in DOMAIN grid : grid[c] >= max_per_cell}) >= 2
    /\ Cardinality(SyncTargets(grid, max_per_cell, topple_cells)) \in 2..MaxOrder

\* C17: at the end of every pass cell_max >= threshold exactly when some stored cell
\* is >= threshold; so a loop that exits after at least one pass leaves every stored
\* cell below the threshold.
C17_GuardExact ==
    /\ (pc = "loop" /\ passes >= 1)
           => ((cell_max >= max_per_cell) <=> ~StableGrid(grid, max_per_cell))
    /\ (pc = "returned" /\ passes >= 1) => StableGrid(grid, max_per_cell)

\* a pass has ended with an overflowing cell in a spread-out grid
C17_Witness ==
    /\ pc = "loop"
    /\ passes >= 1
    /\ cell_max >= max_per_cell
    /\ Cardinality(DOMAIN grid) > 1
    /\ \E c \in DOMAIN grid : grid[c] < max_per_cell

\* C18: while every pattern the object has had is mirror-symmetric, every stored cell
\* lies within max_dim of the origin in both coordinates, so the export neither raises
\* IndexError nor wraps: a returned matrix holds the grid faithfully.
C18_MirroredWithinRadius ==
    mirrored
        => /\ \A c \in DOMAIN grid : Abs(c[1]) <= max_dim /\ Abs(c[2]) <= max_dim
           /\ exc # "IndexError"
           /\ pc = "returned" => Faithful(array, grid, max_dim)

\* a mirror-symmetric pattern has pushed sand beyond the initial radius on the
\* negative side and topple() has returned
C18_Witness ==
    /\ mirrored
    /\ pc = "returned"
    /\ \E c \in DOMAIN grid : c[1] < -InitialMaxDim /\ grid[c] > 0

\* C19: every stored value is >= 0 in every state, and so are the values between the
\* two halves of a pass (after the remainders are written, before the merge) and the
\* deltas.
C19_NonNegative ==
    /\ \A c \in DOMAIN grid : grid[c] >= 0
    /\ PassDue
           => \A sc \in {ScanIn(grid_keys)} :
                  /\ \A c \in DOMAIN sc.grid : sc.grid[c] >= 0
                  /\ \A c \in DOMAIN sc.new_sand : sc.new_sand[c] >= 0

\* passes have written a remainder of 0 and delivered sand
C19_Witness ==
    /\ passes >= 1
    /\ touched # {}
    /\ \E c \in DOMAIN grid : grid[c] = 0
    /\ \E c \in DOMAIN grid : grid[c] > 0

====
